---- MODULE Spec2Model ----
(***************************************************************************)
(* tb::multi_array<T, M, N...> (src/src/multi_array.h): a fixed-size,      *)
(* compile-time-dimensioned array of rank R = 1 + sizeof...(N).            *)
(*                                                                         *)
(* An object of type multi_array<T, d1, ..., dR> is modelled by its        *)
(* storage: the member `multi_array<T, N...> sub_array_[M]` (rank >= 2) or *)
(* `T sub_array_[N]` (rank 1) laid out contiguously, i.e. a sequence of    *)
(* SizeOf(<<d1..dR>>) cells of T.  Addresses are 0-based offsets in units  *)
(* of T from the start of the object; cell k is mem[k+1].  Indices and     *)
(* coordinates are 0-based as in the source.  T is a scalar type (int).    *)
(***************************************************************************)
EXTENDS Integers, Sequences, FiniteSets, TLC

\* Largest element value drawn as an input; elements range over 0..MaxVal.
MaxVal == 1

Values == 0..MaxVal

\* The template instantiations explored (dimension lists, outermost first).
Shapes == {<<2>>, <<3>>, <<1, 2>>, <<2, 1>>, <<2, 2>>, <<2, 1, 2>>}

VARIABLES
  dims,   \* the dimension list <<M, N...>> of the type; fixed per behaviour
  a,      \* storage of the array object under test
  b,      \* storage of a second array object of the same type
  op      \* the last operation: [name, arg, ret]

vars == <<dims, a, b, op>>

(***************************************************************************)
(* Object layout and element addressing                                    *)
(***************************************************************************)

\* sizeof(multi_array<T, s...>) / sizeof(T): M sub-arrays of the remaining
\* dimensions; the empty list stands for T itself.
RECURSIVE SizeOf(_)
SizeOf(s) == IF s = <<>> THEN 1 ELSE Head(s) * SizeOf(Tail(s))

\* All storages an object of shape s can hold.
Objects(s) == [1..SizeOf(s) -> Values]

Load(mem, k) == mem[k + 1]

\* A write of one T at address k; a write past the end of the storage lands
\* in the memory that follows it (the sequence grows to show it).
Store(mem, k, v) ==
  IF k < Len(mem) THEN [mem EXCEPT ![k + 1] = v]
  ELSE mem \o [j \in 1..(k - Len(mem)) |-> 0] \o <<v>>

\* operator[](i): the address of sub_array_[i] in the object of shape s at
\* address p.  No bounds check.
Subscript(p, s, i) == p + i * SizeOf(Tail(s))

\* Faulty variant of Paren: the recursive call goes to sub_array_[0] whatever i is.
RECURSIVE ParenIgnoresOuter(_, _, _)
ParenIgnoresOuter(p, s, idx) ==
  IF Len(s) = 1 THEN Subscript(p, s, idx[1])
  ELSE ParenIgnoresOuter(Subscript(p, s, 0), Tail(s), Tail(idx))

\* operator()(i, j...): sub_array_[i](j...), down to sub_array_[i] at rank 1.
RECURSIVE Paren(_, _, _)
Paren(p, s, idx) ==
  IF Len(s) = 1 THEN Subscript(p, s, idx[1])
  ELSE Paren(Subscript(p, s, idx[1]), Tail(s), Tail(idx))

\* a[i1][i2]...[iR]: operator[] applied left to right, each application to
\* the sub-array the previous one returned.
RECURSIVE Chain(_, _, _, _)
Chain(p, s, idx, k) ==
  IF k > Len(idx) THEN p
  ELSE Chain(Subscript(p, s, idx[k]), Tail(s), idx, k + 1)

\* get<I, J...>(a): a[I] when one index remains, else get<J...>(a[I]).
\* static_assert(I < N) rejects an out-of-range index at compile time.
RECURSIVE Get(_, _, _)
Get(p, s, idx) ==
  IF ~(idx[1] < Head(s)) THEN -1
  ELSE IF Len(idx) = 1 THEN Subscript(p, s, idx[1])
  ELSE Get(Subscript(p, s, idx[1]), Tail(s), Tail(idx))

\* data(): sub_array_->data() at rank >= 2, sub_array_ at rank 1.
RECURSIVE Data(_, _)
Data(p, s) ==
  IF Len(s) = 1 THEN p ELSE Data(Subscript(p, s, 0), Tail(s))

\* begin() and end(): sub_array_ and sub_array_ + M.
Begin(p, s) == p
End(p, s) == p + Head(s) * SizeOf(Tail(s))

\* Faulty variant of size: the total element count (M * ... * N) instead of M.
total_size(s) == SizeOf(s)

\* size(), max_size(), empty(), order().
size(s) == Head(s)
max_size(s) == Head(s)
empty(s) == size(s) = 0
order(s) == IF Len(s) = 1 THEN 1 ELSE (Len(s) - 1) + 1

(***************************************************************************)
(* Coordinates: what "the element at (i1..iR)" means, independently of the *)
(* accessors above.  Row-major: the last index varies fastest.             *)
(***************************************************************************)

RECURSIVE Coords(_)
Coords(s) ==
  IF s = <<>> THEN {<<>>}
  ELSE {<<i>> \o c : i \in 0..(Head(s) - 1), c \in Coords(Tail(s))}

RECURSIVE Horner(_, _, _)
Horner(s, c, k) == IF k = 0 THEN 0 ELSE Horner(s, c, k - 1) * s[k] + c[k]

RowMajor(s, c) == Horner(s, c, Len(s))

ElemAt(mem, s, c) == mem[RowMajor(s, c) + 1]

RECURSIVE Product(_)
Product(s) == IF s = <<>> THEN 1 ELSE s[Len(s)] * Product(SubSeq(s, 1, Len(s) - 1))

(***************************************************************************)
(* Construction, fill, swap                                                *)
(***************************************************************************)

\* The defaulted copy assignment of a sub-array: the n cells of the
\* temporary src replace the n cells at address q.
CopyObj(mem, q, src, n) ==
  SubSeq(mem, 1, q) \o SubSeq(src, 1, n) \o SubSeq(mem, q + n + 1, Len(mem))

\* Faulty variant of DefaultCtor: a user-provided constructor with an empty body,
\* after which value-initialization no longer zero-initializes.
UserProvidedCtor(junk, s, kind) == junk

\* multi_array() = default.  Default-initialization ("multi_array<..> x;")
\* leaves a scalar T as the storage held it; value-initialization
\* ("multi_array<..> x{};") zero-initializes first, the constructor not
\* being user-provided.
DefaultCtor(junk, s, kind) ==
  IF kind = "value" THEN [j \in 1..Len(junk) |-> 0] ELSE junk

\* The storage of a temporary of n cells before its constructor has
\* written it: every cell holds the marker Indeterminate, which no T equals.
Indeterminate == -1
Fresh(n) == [j \in 1..n |-> Indeterminate]

\* The number of slots in the iterator range [first, last) of the object
\* of shape s.
Distance(first, last, s) == (last - first) \div SizeOf(Tail(s))

\* Faulty variant of StdFill: the range filled is [first, last - 1).
RECURSIVE StdFillStopsEarly(_, _, _, _, _)
StdFillStopsEarly(mem, p, s, n, v) ==
  IF n = 0 THEN mem
  ELSE LET m == StdFillStopsEarly(mem, p, s, n - 1, v)
           q == Subscript(p, s, n - 1)
           t == Tail(s)
       IN IF n = Head(s) THEN m
          ELSE IF Len(s) = 1 THEN Store(m, q, v)
          ELSE CopyObj(m, q,
                       StdFillStopsEarly(Fresh(SizeOf(t)), Begin(0, t), t,
                                         Distance(Begin(0, t), End(0, t), t), v),
                       SizeOf(t))

\* std::fill(first, last, value) after its first n iterations, first being
\* the slot at address p of an object of shape s.  At rank 1 "*it = value"
\* writes a T; at rank >= 2 it converts value to a temporary
\* multi_array<T, N...>(value) and copy-assigns the temporary to the slot.
RECURSIVE StdFill(_, _, _, _, _)
StdFill(mem, p, s, n, v) ==
  IF n = 0 THEN mem
  ELSE LET m == StdFill(mem, p, s, n - 1, v)
           q == Subscript(p, s, n - 1)
           t == Tail(s)
       IN IF Len(s) = 1 THEN Store(m, q, v)
          ELSE CopyObj(m, q,
                       StdFill(Fresh(SizeOf(t)), Begin(0, t), t,
                               Distance(Begin(0, t), End(0, t), t), v),
                       SizeOf(t))

\* multi_array(const T& value): std::fill(begin(), end(), value) on the
\* storage junk of the new object.
BroadcastCtor(junk, s, v) ==
  StdFill(junk, Begin(0, s), s, Distance(Begin(0, s), End(0, s), s), v)

\* fill(value): std::fill(begin(), end(), value).
fill(mem, s, v) ==
  StdFill(mem, Begin(0, s), s, Distance(Begin(0, s), End(0, s), s), v)

\* multi_array(init_list): assert(init_list.size() == M), then
\* std::copy(init_list.begin(), init_list.end(), sub_array_), here after its
\* first n iterations.  At rank 1 an entry is a T; at rank >= 2 it is a
\* list, converted by this same constructor (and its assert) to a temporary
\* that is copy-assigned to the slot.  A failed assert aborts: ok = FALSE.
RECURSIVE StdCopyList(_, _, _, _, _)
RECURSIVE ListCtor(_, _, _)
StdCopyList(mem, p, s, lit, n) ==
  IF n = 0 THEN [ok |-> TRUE, mem |-> mem]
  ELSE LET r == StdCopyList(mem, p, s, lit, n - 1)
           q == Subscript(p, s, n - 1)
           t == Tail(s)
       IN IF ~r.ok THEN r
          ELSE IF Len(s) = 1
          THEN [ok |-> TRUE, mem |-> Store(r.mem, q, lit[n])]
          ELSE LET tmp == ListCtor(Fresh(SizeOf(t)), t, lit[n])
               IN IF ~tmp.ok THEN [ok |-> FALSE, mem |-> r.mem]
                  ELSE [ok |-> TRUE,
                        mem |-> CopyObj(r.mem, q, tmp.mem, SizeOf(t))]

\* Faulty variant of ListCtor: assert(init_list.size() <= M).
ListCtorAtMost(junk, s, lit) ==
  IF Len(lit) > Head(s) THEN [ok |-> FALSE, mem |-> junk]
  ELSE StdCopyList(junk, Begin(0, s), s, lit, Len(lit))

ListCtor(junk, s, lit) ==
  IF Len(lit) # Head(s) THEN [ok |-> FALSE, mem |-> junk]
  ELSE StdCopyList(junk, Begin(0, s), s, lit, Len(lit))

\* Faulty variant of SwapRanges: two T are "exchanged" without a temporary,
\* x = y; y = x.
RECURSIVE SwapRangesNoTemp(_, _, _, _, _)
SwapRangesNoTemp(x, y, p, s, n) ==
  IF n = 0 THEN <<x, y>>
  ELSE LET r == SwapRangesNoTemp(x, y, p, s, n - 1)
           q == Subscript(p, s, n - 1)
           t == Tail(s)
       IN IF Len(s) = 1
          THEN <<Store(r[1], q, Load(r[2], q)), r[2]>>
          ELSE SwapRangesNoTemp(r[1], r[2], q, t,
                                Distance(Begin(q, t), End(q, t), t))

\* swap(other): std::swap_ranges(begin(), end(), other.begin()) after its
\* first n iterations; the two objects x and y have the same type, so slot i
\* of each is at the same offset.  Two T are exchanged; two sub-arrays are
\* exchanged by their own swap.
RECURSIVE SwapRanges(_, _, _, _, _)
SwapRanges(x, y, p, s, n) ==
  IF n = 0 THEN <<x, y>>
  ELSE LET r == SwapRanges(x, y, p, s, n - 1)
           q == Subscript(p, s, n - 1)
           t == Tail(s)
       IN IF Len(s) = 1
          THEN <<Store(r[1], q, Load(r[2], q)), Store(r[2], q, Load(r[1], q))>>
          ELSE SwapRanges(r[1], r[2], q, t, Distance(Begin(q, t), End(q, t), t))

\* x.swap(y), and the free function swap(lhs, rhs): lhs.swap(rhs).
swap(x, y, s) ==
  SwapRanges(x, y, Begin(0, s), s, Distance(Begin(0, s), End(0, s), s))
FreeSwap(lhs, rhs, s) == swap(lhs, rhs, s)

(***************************************************************************)
(* Comparison                                                              *)
(***************************************************************************)

\* Faulty variant of OpEq: the loop runs for i < M - 1.
RECURSIVE OpEqSkipsLast(_, _, _, _, _)
OpEqSkipsLast(x, y, p, s, i) ==
  IF i >= Head(s) - 1 THEN TRUE
  ELSE LET q == Subscript(p, s, i)
           ne == IF Len(s) = 1 THEN Load(x, q) # Load(y, q)
                 ELSE ~OpEqSkipsLast(x, y, q, Tail(s), 0)
       IN IF ne THEN FALSE ELSE OpEqSkipsLast(x, y, p, s, i + 1)

\* operator==: for (i = 0; i < M; ++i) if (lhs[i] != rhs[i]) return false;
\* return true.  lhs[i] != rhs[i] compares two T at rank 1 and is
\* operator!= of the sub-arrays, !(lhs[i] == rhs[i]), at rank >= 2.
RECURSIVE OpEq(_, _, _, _, _)
OpEq(x, y, p, s, i) ==
  IF i >= Head(s) THEN TRUE
  ELSE LET q == Subscript(p, s, i)
           ne == IF Len(s) = 1 THEN Load(x, q) # Load(y, q)
                 ELSE ~OpEq(x, y, q, Tail(s), 0)
       IN IF ne THEN FALSE ELSE OpEq(x, y, p, s, i + 1)

Equal(x, y, s) == OpEq(x, y, 0, s, 0)
NotEqual(x, y, s) == ~Equal(x, y, s)

(***************************************************************************)
(* Checked access                                                          *)
(***************************************************************************)

InRange(s, idx) == \A k \in 1..Len(s) : idx[k] < s[k]

\* What an unchecked access with an out-of-range index may do (undefined
\* behaviour): yield a reference to any address in or past the object, or
\* crash.  No assertion is evaluated on that path.
Undefined(s) ==
  {[status |-> "ref", addr |-> k] : k \in 0..SizeOf(s)} \cup
  {[status |-> "crash"]}

\* at(i, j...): assert(i < M); return sub_array_[i](j...) -- operator(),
\* not at(), on the sub-array; at rank 1, assert(i < N); return
\* sub_array_[i].  The set of possible outcomes.
at(s, idx) ==
  IF ~(idx[1] < Head(s)) THEN {[status |-> "assert"]}
  ELSE IF Len(s) = 1 THEN {[status |-> "ref", addr |-> Subscript(0, s, idx[1])]}
  ELSE IF InRange(Tail(s), Tail(idx))
       THEN {[status |-> "ref",
              addr |-> Paren(Subscript(0, s, idx[1]), Tail(s), Tail(idx))]}
       ELSE Undefined(s)

(***************************************************************************)
(* Conversion from a built-in array.  A built-in array T[e1]...[eR] is a   *)
(* nested sequence; its type is its list of extents.                       *)
(***************************************************************************)

RECURSIVE CArrays(_)
CArrays(t) ==
  IF Len(t) = 1 THEN [1..Head(t) -> Values]
  ELSE [1..Head(t) -> CArrays(Tail(t))]

\* std::rank_v / std::extent_v<T, I>: the extents of the array n of rank r.
RECURSIVE Extents(_, _)
Extents(n, r) == IF r = 0 THEN <<>> ELSE <<Len(n)>> \o Extents(n[1], r - 1)

\* (R*)a: the scalars of the built-in array as the language lays them out,
\* the last index varying fastest.
RECURSIVE Scalars(_, _)
Scalars(n, r) ==
  IF r = 0 THEN <<n>>
  ELSE IF Len(n) = 0 THEN <<>>
  ELSE Scalars(Head(n), r - 1) \o Scalars(Tail(n), r)

\* Faulty variant of array_size: the outermost extent only.
outer_extent(t) == IF t = <<>> THEN 1 ELSE Head(t)

\* array_size: C_array_size_impl<T[N]>::value = C_array_size_impl<T>::value
\* * N, and 1 for a non-array T.
RECURSIVE array_size(_)
array_size(t) == IF t = <<>> THEN 1 ELSE array_size(Tail(t)) * Head(t)

\* multi_array_for<T>: multi_array<remove_all_extents_t<T>, extent_v<T, I>...>
\* for I = 0..rank-1.
multi_array_for(t) == [I \in 1..Len(t) |-> t[I]]

\* std::copy_n(src, count, dst) after its first n iterations: the k-th
\* scalar goes to address d + k.
RECURSIVE CopyN(_, _, _, _)
CopyN(src, n, mem, d) ==
  IF n = 0 THEN mem
  ELSE LET m == CopyN(src, n - 1, mem, d)
       IN Store(m, d + (n - 1), src[n])

\* to_multi_array(a): a default-initialized result (storage junk), then
\* std::copy_n((R*)a, array_size(a), result.data()).
to_multi_array(junk, n, r) ==
  LET t == Extents(n, r)
      s == multi_array_for(t)
  IN [dims |-> s,
      count |-> array_size(t),
      mem |-> CopyN(Scalars(n, r), array_size(t), junk, Data(0, s))]

(***************************************************************************)
(* Iterators                                                               *)
(***************************************************************************)

\* iterator = value_type*; reverse_iterator = std::reverse_iterator<iterator>.
Iterator(q) == [type |-> "iterator", ptr |-> q]
ReverseIterator(it) == [type |-> "reverse_iterator", base |-> it.ptr]
IllFormed == [type |-> "ill-formed"]

\* A return statement converts its operand to the declared return type;
\* std::reverse_iterator<P> has no conversion to P, so such a return does
\* not compile.
Return(type, v) == IF v.type = type THEN v ELSE IllFormed

begin(s) == Return("iterator", Iterator(Begin(0, s)))
end(s) == Return("iterator", Iterator(End(0, s)))

\* iterator rbegin() { return reverse_iterator(end()); }
\* iterator rend()   { return reverse_iterator(begin()); }
rbegin(s) == Return("iterator", ReverseIterator(end(s)))
rend(s) == Return("iterator", ReverseIterator(begin(s)))

\* ++it on a value_type*: the next slot.
Incr(it, s) == Iterator(it.ptr + SizeOf(Tail(s)))

\* *it: the slot the iterator points to, as its index and its cells.
Deref(mem, it, s) ==
  [slot |-> it.ptr \div SizeOf(Tail(s)),
   cells |-> SubSeq(mem, it.ptr + 1, it.ptr + SizeOf(Tail(s)))]

(***************************************************************************)
(* Inputs                                                                  *)
(***************************************************************************)

\* Index lists for a checked access: each index in range or one past it.
Indices(s) == {idx \in [1..Len(s) -> 0..3] : \A k \in 1..Len(s) : idx[k] <= s[k]}

\* The nested literal of shape s whose every entry is v.
RECURSIVE UniformLit(_, _)
UniformLit(s, v) ==
  IF Len(s) = 1 THEN [j \in 1..Head(s) |-> v]
  ELSE [j \in 1..Head(s) |-> UniformLit(Tail(s), v)]

\* A nested literal with one list made one entry shorter or longer: the
\* list reached from lit by the index path.
RECURSIVE Perturb(_, _, _)
Perturb(lit, path, kind) ==
  IF path = <<>>
  THEN IF kind = "short" THEN SubSeq(lit, 1, Len(lit) - 1)
       ELSE Append(lit, lit[Len(lit)])
  ELSE [lit EXCEPT ![path[1] + 1] = Perturb(@, Tail(path), kind)]

Paths(s) == {SubSeq(c, 1, k) : c \in Coords(s), k \in 0..(Len(s) - 1)}

\* The nested literals offered to the constructor: every literal of the
\* declared shape, and the uniform literals with one list, at any depth, of
\* the wrong length.
Literals(s) ==
  CArrays(s) \cup
  {Perturb(UniformLit(s, v), path, kind) :
     v \in Values, path \in Paths(s), kind \in {"short", "long"}}

\* The other arrays handed to copy construction and swap.
Others(s) == {BroadcastCtor(Fresh(SizeOf(s)), s, v) : v \in Values}

(***************************************************************************)
(* Operations on the array object a.  A failed assert, or a call that does *)
(* not compile, ends the program: op.live = FALSE and nothing follows.     *)
(***************************************************************************)

Done(name, arg, ret) == [name |-> name, arg |-> arg, ret |-> ret, live |-> TRUE]
Dead(name, arg, ret) == [name |-> name, arg |-> arg, ret |-> ret, live |-> FALSE]

\* The storage of a holds arbitrary values before any constructor has run.
Init ==
  /\ dims \in Shapes
  /\ a \in Objects(dims)
  /\ b = <<>>
  /\ op = Done("none", <<>>, <<>>)

DefaultConstruct ==
  /\ op.live
  /\ \E kind \in {"default", "value"} :
       /\ a' = DefaultCtor(a, dims, kind)
       /\ op' = Done("default", kind, <<>>)
  /\ UNCHANGED <<dims, b>>

BroadcastConstruct ==
  /\ op.live
  /\ \E v \in Values :
       /\ a' = BroadcastCtor(a, dims, v)
       /\ op' = Done("broadcast", v, <<>>)
  /\ UNCHANGED <<dims, b>>

ListConstruct ==
  /\ op.live
  /\ \E lit \in Literals(dims) :
       LET r == ListCtor(a, dims, lit)
       IN IF r.ok
          THEN a' = r.mem /\ op' = Done("list", lit, "ok")
          ELSE a' = a /\ op' = Dead("list", lit, "assert")
  /\ UNCHANGED <<dims, b>>

\* multi_array(const multi_array&) = default: memberwise copy of x.
CopyConstruct ==
  /\ op.live
  /\ \E x \in Others(dims) :
       /\ a' = CopyObj(a, 0, x, SizeOf(dims))
       /\ op' = Done("copy", <<>>, <<>>)
  /\ UNCHANGED <<dims, b>>

Fill ==
  /\ op.live
  /\ \E v \in Values :
       /\ a' = fill(a, dims, v)
       /\ op' = Done("fill", v, <<>>)
  /\ UNCHANGED <<dims, b>>

\* The address an accessor yields for a valid coordinate c.
Ref(route, s, c) ==
  CASE route = "paren" -> Paren(0, s, c)
    [] route = "chain" -> Chain(0, s, c, 1)
    [] route = "get" -> Get(0, s, c)

\* An element write through one of the three accessors.
Write ==
  /\ op.live
  /\ \E route \in {"paren", "chain", "get"}, c \in Coords(dims), v \in Values :
       /\ a' = Store(a, Ref(route, dims, c), v)
       /\ op' = Done("write", [route |-> route, c |-> c, v |-> v], <<>>)
  /\ UNCHANGED <<dims, b>>

ToMultiArray ==
  /\ op.live
  /\ \E n \in CArrays(dims) :
       LET r == to_multi_array(a, n, Len(dims))
       IN /\ a' = r.mem
          /\ op' = Done("to_multi_array", n, [dims |-> r.dims, count |-> r.count])
  /\ UNCHANGED <<dims, b>>

\* a.swap(x) with another array x of the same type.
SwapWith ==
  /\ op.live
  /\ \E x \in Others(dims) :
       /\ a' = swap(a, x, dims)[1]
       /\ op' = Done("swap", <<>>, <<>>)
  /\ UNCHANGED <<dims, b>>

Next ==
  \/ DefaultConstruct
  \/ BroadcastConstruct
  \/ ListConstruct
  \/ CopyConstruct
  \/ Fill
  \/ Write
  \/ ToMultiArray
  \/ SwapWith

Spec == Init /\ [][Next]_vars

(***************************************************************************)
(* Checked access and iteration                                            *)
(***************************************************************************)

At ==
  /\ op.live
  /\ \E idx \in Indices(dims) : \E r \in at(dims, idx) :
       op' = IF r.status = "ref" THEN Done("at", idx, r) ELSE Dead("at", idx, r)
  /\ UNCHANGED <<dims, a, b>>

\* for (it = begin(); it != end(); ++it) visit(*it), one step at a time.
\* prev is what the pass before visited, when that pass ran to the end.
IterBegin ==
  /\ op.live
  /\ op' = Done("iterate", "forward",
                [it |-> begin(dims), seen |-> <<>>,
                 prev |-> IF op.name = "iterate" /\ op.ret.it = end(dims)
                          THEN [done |-> TRUE, seen |-> op.ret.seen]
                          ELSE [done |-> FALSE, seen |-> <<>>]])
  /\ UNCHANGED <<dims, a, b>>

IterNext ==
  /\ op.live
  /\ op.name = "iterate"
  /\ op.ret.it # (IF op.arg = "forward" THEN end(dims) ELSE rend(dims))
  /\ op' = [op EXCEPT !.ret.seen = Append(@, Deref(a, op.ret.it, dims)),
                      !.ret.it = Incr(op.ret.it, dims)]
  /\ UNCHANGED <<dims, a, b>>

\* for (it = rbegin(); it != rend(); ++it) visit(*it).
RIterBegin ==
  /\ op.live
  /\ LET it == rbegin(dims)
         r == [it |-> it, seen |-> <<>>, prev |-> [done |-> FALSE, seen |-> <<>>]]
     IN op' = IF it = IllFormed THEN Dead("iterate", "reverse", r)
              ELSE Done("iterate", "reverse", r)
  /\ UNCHANGED <<dims, a, b>>

NextAccess ==
  \/ Write
  \/ At
  \/ IterBegin
  \/ IterNext
  \/ RIterBegin

SpecAccess == Init /\ [][NextAccess]_vars

(***************************************************************************)
(* Two arrays a and b of the same type: swap and comparison                *)
(***************************************************************************)

InitPair ==
  /\ dims \in Shapes
  /\ a \in Objects(dims)
  /\ b \in Objects(dims)
  /\ op = Done("none", <<>>, <<>>)

\* a.swap(b)
Swap ==
  /\ LET r == swap(a, b, dims)
     IN a' = r[1] /\ b' = r[2]
  /\ op' = Done("swap", "member", <<>>)
  /\ UNCHANGED dims

\* swap(a, b)
SwapFree ==
  /\ LET r == FreeSwap(a, b, dims)
     IN a' = r[1] /\ b' = r[2]
  /\ op' = Done("swap", "free", <<>>)
  /\ UNCHANGED dims

\* a == b and a != b
Compare ==
  /\ op' = Done("compare", <<>>,
                [eq |-> Equal(a, b, dims), ne |-> NotEqual(a, b, dims)])
  /\ UNCHANGED <<dims, a, b>>

NextPair ==
  \/ Swap
  \/ SwapFree
  \/ Compare

SpecPair == InitPair /\ [][NextPair]_vars

(***************************************************************************)
(* Properties                                                              *)
(***************************************************************************)

\* n[i1]...[iR] for a built-in array or nested literal n.
RECURSIVE NativeAt(_, _)
NativeAt(n, c) == IF c = <<>> THEN n ELSE NativeAt(n[c[1] + 1], Tail(c))

\* The literal has, at every depth k, lists of exactly dk entries.
RECURSIVE Matches(_, _)
Matches(lit, s) ==
  /\ Len(lit) = Head(s)
  /\ Len(s) > 1 => \A j \in 1..Len(lit) : Matches(lit[j], Tail(s))

AllEqual(mem, s, v) == \A c \in Coords(s) : ElemAt(mem, s, c) = v

Routes == {"paren", "chain", "get"}

\* C1: after broadcast construction from v, and after fill(v) following any
\* sequence of constructions, writes, swaps and fills, every full coordinate
\* of the array holds v.
C1_FillReachesEveryCoordinate ==
  op.name \in {"broadcast", "fill"} =>
    /\ Len(a) = Product(dims)
    /\ AllEqual(a, dims, op.arg)

C1_Witness ==
  /\ op.name = "fill"
  /\ Len(dims) = 3
  /\ op.arg = MaxVal
  /\ AllEqual(a, dims, MaxVal)

\* C2: a step that swaps a and b (member or free function) leaves in a, at
\* every coordinate, the value b held before, and in b the value a held
\* before.
C2_SwapExchanges ==
  [][op'.name = "swap" =>
       /\ Len(a') = Product(dims) /\ Len(b') = Product(dims)
       /\ \A c \in Coords(dims) :
            /\ ElemAt(a', dims, c) = ElemAt(b, dims, c)
            /\ ElemAt(b', dims, c) = ElemAt(a, dims, c)]_vars

C2_Witness ==
  /\ op.name = "swap"
  /\ op.arg = "free"
  /\ Len(dims) = 3
  /\ \A c \in Coords(dims) : ElemAt(a, dims, c) # ElemAt(b, dims, c)

\* C3: operator== is true exactly when the two arrays agree at every full
\* coordinate and operator!= is its negation; equality is reflexive,
\* symmetric and transitive, and changing one coordinate of one of two
\* equal arrays to a different value makes them unequal.
C3_EqualityIsCoordinatewise ==
  /\ op.name = "compare" =>
       /\ op.ret.eq = (\A c \in Coords(dims) : ElemAt(a, dims, c) = ElemAt(b, dims, c))
       /\ op.ret.ne = ~op.ret.eq
  /\ b # <<>> =>
       /\ Equal(a, a, dims) /\ Equal(b, b, dims)
       /\ Equal(a, b, dims) = Equal(b, a, dims)
       /\ Equal(a, b, dims) =>
            \A z \in Objects(dims) : Equal(b, z, dims) => Equal(a, z, dims)
       /\ Equal(a, b, dims) =>
            \A c \in Coords(dims) : \A v \in Values \ {ElemAt(b, dims, c)} :
              /\ ~Equal(a, Store(b, RowMajor(dims, c), v), dims)
              /\ NotEqual(Store(b, RowMajor(dims, c), v), a, dims)

C3_Witness ==
  /\ op.name = "compare"
  /\ op.ret.ne
  /\ Len(dims) = 3
  /\ Cardinality({c \in Coords(dims) : ElemAt(a, dims, c) # ElemAt(b, dims, c)}) = 1
  /\ ElemAt(a, dims, <<1, 0, 1>>) # ElemAt(b, dims, <<1, 0, 1>>)

\* C4: to_multi_array(n) yields a container of n's extents whose element at
\* every coordinate equals n[i1]...[iR]; exactly e1*...*eR scalars are
\* copied and none is written outside the container.
C4_ConversionCopiesEveryScalar ==
  op.name = "to_multi_array" =>
    /\ op.ret.dims = dims
    /\ op.ret.count = Product(dims)
    /\ Len(a) = Product(dims)
    /\ \A c \in Coords(dims) : ElemAt(a, dims, c) = NativeAt(op.arg, c)

C4_Witness ==
  /\ op.name = "to_multi_array"
  /\ dims = <<2, 1, 2>>
  /\ op.arg = <<<< <<0, 1>> >>, << <<1, 0>> >>>>
  /\ ElemAt(a, dims, <<0, 0, 1>>) = 1
  /\ ElemAt(a, dims, <<1, 0, 1>>) = 0

\* C5: at(i1..iR) with an out-of-range index at any level fails the
\* assertion instead of returning a reference.
C5_AtAssertsEveryLevel ==
  op.name = "at" /\ ~InRange(dims, op.arg) => op.ret.status = "assert"

\* C6: construction from a nested literal fails the assertion exactly when
\* the literal's length differs from the declared dimension at some level;
\* a literal matching at every level yields an array holding the literal's
\* entry at every coordinate.
C6_LiteralLengthsChecked ==
  op.name = "list" =>
    /\ (op.ret = "assert") = ~Matches(op.arg, dims)
    /\ op.ret = "ok" =>
         /\ Len(a) = Product(dims)
         /\ \A c \in Coords(dims) : ElemAt(a, dims, c) = NativeAt(op.arg, c)

C6_Witness ==
  /\ op.name = "list"
  /\ op.ret = "assert"
  /\ Len(dims) = 3
  /\ Len(op.arg) = dims[1]
  /\ \A j \in 1..Len(op.arg) : Len(op.arg[j]) = dims[2]

\* C7 as stated: a default-constructed container has every element equal
\* to T's default value, 0.
C7_DefaultIsZero ==
  op.name = "default" => AllEqual(a, dims, 0)

\* C7 amended: a value-initialized container has every element equal to 0;
\* a default-initialized one keeps whatever its storage held.
C7_ValueInitIsZero ==
  [][op'.name = "default" =>
       IF op'.arg = "value" THEN Len(a') = Product(dims) /\ AllEqual(a', dims, 0)
       ELSE a' = a]_vars

C7_Witness ==
  /\ op.name = "default"
  /\ op.arg = "value"
  /\ Len(dims) = 2
  /\ AllEqual(a, dims, 0)

\* C8: forward iteration visits the d1 outermost slots in index order
\* 0..d1-1, and reverse iteration from rbegin() to rend() visits the same
\* slots in the order d1-1..0.
C8_IterationVisitsSlots ==
  op.name = "iterate" =>
    /\ op.arg = "forward" /\ op.ret.it = end(dims) =>
         op.ret.seen =
           [j \in 1..dims[1] |->
              [slot |-> j - 1,
               cells |-> SubSeq(a, (j - 1) * Product(Tail(dims)) + 1,
                                j * Product(Tail(dims)))]]
    /\ op.arg = "reverse" =>
         /\ op.ret.it.type = "reverse_iterator"
         /\ op.ret.it = rend(dims) =>
              op.ret.seen =
                [j \in 1..dims[1] |->
                   [slot |-> dims[1] - j,
                    cells |-> SubSeq(a, (dims[1] - j) * Product(Tail(dims)) + 1,
                                     (dims[1] - j + 1) * Product(Tail(dims)))]]

\* C9: the shape never changes: size() and max_size() are the outermost
\* dimension (not the total count), order() is the number of dimensions,
\* empty() holds only when the outermost dimension is 0, and the storage
\* holds d1*...*dR scalars.
C9_ShapeIsInvariant ==
  /\ [](/\ size(dims) = dims[1]
        /\ max_size(dims) = dims[1]
        /\ order(dims) = Len(dims)
        /\ empty(dims) = (dims[1] = 0)
        /\ Len(a) = Product(dims)
        /\ a \in [1..Product(dims) -> Values])
  /\ [][dims' = dims]_vars

C9_Witness ==
  /\ op.name = "swap"
  /\ dims = <<2, 1, 2>>
  /\ size(dims) = 2
  /\ Len(a) = 4

\* C10: at every valid coordinate a(i1..iR), a[i1]...[iR] and get<i1..iR>(a)
\* denote the same element, the one at the coordinate; a write through any
\* of them is read back through each, and changes no other coordinate.
C10_AccessorsAgree ==
  [][op'.name = "write" =>
       /\ \A c \in Coords(dims) : \A r \in Routes :
            Ref(r, dims, c) = RowMajor(dims, c)
       /\ \A r \in Routes : Load(a', Ref(r, dims, op'.arg.c)) = op'.arg.v
       /\ \A c \in Coords(dims) \ {op'.arg.c} : \A r \in Routes :
            Load(a', Ref(r, dims, c)) = ElemAt(a, dims, c)]_vars

C10_Witness ==
  /\ op.name = "write"
  /\ op.arg.route = "get"
  /\ op.arg.c = <<1, 0, 1>>
  /\ op.arg.v = MaxVal
  /\ ElemAt(a, dims, <<1, 0, 0>>) # MaxVal

====
